---- MODULE Spec2Model ----
(***************************************************************************)
(* The session bridge of avr-sts-humeai: one client WebSocket connection   *)
(* bridged to the HumeAI EVI WebSocket.  The repository holds three        *)
(* variants of the bridge, all modelled here and selected by `variant`:    *)
(*   "v1"  src/index.js lines 1-118   (no upstream is ever dialled)        *)
(*   "js"  src/index.js lines 120-528 (buffering bridge with tool calls)   *)
(*   "ts"  src/src/index.ts           (queueing bridge over the Hume SDK)  *)
(* One action is one run of an event handler to its end or to its next     *)
(* await.  The `ws` library is modelled by what its calls do:              *)
(*   send() on a CONNECTING socket throws, send() on a CLOSING or CLOSED   *)
(*   socket is dropped without an exception, close() on a CONNECTING       *)
(*   socket aborts the handshake ('error' then 'close' are emitted),       *)
(*   close() on an OPEN socket starts the closing handshake during which   *)
(*   'message' events are still emitted, close() otherwise does nothing.   *)
(* An exception no handler catches terminates the process (`crashed`).     *)
(***************************************************************************)
EXTENDS Integers, Sequences, FiniteSets, TLC

\* ------------------------------------------------------------- bounds
MaxInit == 2
MaxInputs == 4

\* ------------------------------------------------------------ constants
NULL == "null"
UNDEFINED == "undefined"
CHUNK_SIZE == 9600

SocketNames == <<"w1", "w2", "w3", "w4", "w5", "w6">>
Sockets == {SocketNames[i] : i \in 1..MaxInit}
PayloadNames == <<"p1", "p2", "p3", "p4", "p5", "p6">>
UuidNames == <<"u1", "u2", "u3", "u4", "u5", "u6">>
\* the ids the upstream gives its tool calls, in the order it makes them
CallIds == <<"A", "B", "C", "D", "E", "F">>
\* the tool calls the upstream makes: the tool's name, its parameters string
ToolCalls == {<<"known", "good">>, <<"known", "bad">>, <<"unknown", "good">>}
RelayKinds == {"audio_output", "user_interruption", "user_message",
               "assistant_message"}
\* message.message.content of the upstream's transcripts
TextNames == <<"t1", "t2", "t3", "t4", "t5", "t6">>
AudioKinds == {"payload", "undefined"}
Variants == {"v1", "js", "ts"}

VARIABLES
  variant,      \* which variant of the bridge runs
  clientWs,     \* state of the client socket
  up,           \* state of every upstream socket
  created,      \* number of upstream sockets created so far
  sessionUuid,  \* v1, js: let sessionUuid
  ws,           \* v1, js: let ws
  audioBuffer,  \* js: let audioBuffer
  humeSocket,   \* ts: let humeSocket
  queued,       \* ts: const queued
  dialing,      \* ts: init handlers suspended at `await initializeHumeConnection`
  pending,      \* js: tool handlers suspended at `await handler(...)`
  arrived,      \* history: the tool calls received, in arrival order
  settled,      \* history: how each awaited tool handler ended
  upSent,       \* history: what the upstream sockets were sent, in order
  clSent,       \* history: what the client socket was sent, in order
  early,        \* history: payloads received, and not discarded by a teardown,
                \* before any upstream socket opened
  opened,       \* history: some upstream socket's 'open' handler has run
  lateSend,     \* history: sides on which a send was attempted after it closed
  crashed,      \* the process died of an uncaught exception
  nInit,        \* number of client init messages received
  nAudio,       \* number of client audio messages received
  nRelay,       \* number of upstream events to relay received
  nBad,         \* number of malformed client messages received
  arg,          \* the argument of a function applied on its own
  res           \* what the function returned

vars == <<variant, clientWs, up, created, sessionUuid, ws, audioBuffer,
          humeSocket, queued, dialing, pending, arrived, settled, upSent, clSent,
          early,
          opened, lateSend, crashed, nInit, nAudio, nRelay, nBad, arg, res>>

\* the state of the bridge
bridge == <<variant, clientWs, up, created, sessionUuid, ws, audioBuffer,
            humeSocket, queued, dialing, pending, arrived, settled, upSent,
            clSent, early, opened, lateSend, crashed, nInit, nAudio, nRelay,
            nBad>>

\* --------------------------------------------------- the ws library
\* readyState as the code reads it
readyState(st) ==
  CASE st \in {"ABORTING", "FAILED"} -> "CLOSING"
    [] OTHER -> st

\* WebSocket.prototype.close()
wsClose(st) ==
  CASE st = "CONNECTING" -> "ABORTING"
    [] st = "OPEN" -> "CLOSING"
    [] OTHER -> st

\* outcome of WebSocket.prototype.send() by the socket's state
sendOutcome(st) ==
  CASE st = "OPEN" -> "sent"
    [] st = "CONNECTING" -> "throws"
    [] OTHER -> "dropped"

IsPrefix(s, t) == Len(s) <= Len(t) /\ SubSeq(t, 1, Len(s)) = s

\* no function is applied on its own
NoCall == [fn |-> "none"]
NoResult == [done |-> FALSE]
Returned(v) == [done |-> TRUE, val |-> v]

\* a connection the server has just accepted
Fresh ==
  /\ clientWs = "OPEN"
  /\ up = [w \in Sockets |-> "NONE"]
  /\ created = 0
  /\ sessionUuid = NULL
  /\ ws = NULL
  /\ audioBuffer = <<>>
  /\ humeSocket = NULL
  /\ queued = <<>>
  /\ dialing = 0
  /\ pending = {}
  /\ arrived = <<>>
  /\ settled = {}
  /\ upSent = <<>>
  /\ clSent = <<>>
  /\ early = <<>>
  /\ opened = FALSE
  /\ lateSend = {}
  /\ crashed = FALSE
  /\ nInit = 0
  /\ nAudio = 0
  /\ nRelay = 0
  /\ nBad = 0

Init ==
  /\ variant \in Variants
  /\ Fresh
  /\ arg = NoCall
  /\ res = NoResult

\* ------------------------------------------------ the handlers' state
\* All a handler reads and writes, as one record, so that the statements of
\* a handler compose in program order.  `thrown` is an exception in flight:
\* the statements after a throw are skipped up to the next catch.
Cur ==
  [clientWs |-> clientWs, up |-> up, created |-> created,
   sessionUuid |-> sessionUuid, ws |-> ws, audioBuffer |-> audioBuffer,
   humeSocket |-> humeSocket, queued |-> queued, dialing |-> dialing,
   pending |-> pending, arrived |-> arrived, settled |-> settled,
   upSent |-> upSent,
   clSent |-> clSent, early |-> early, opened |-> opened,
   lateSend |-> lateSend, nInit |-> nInit, nAudio |-> nAudio,
   nRelay |-> nRelay, nBad |-> nBad, thrown |-> FALSE]

\* The handler's end: its writes, and the process's death if it threw.
Commit(s) ==
  /\ variant' = variant
  /\ clientWs' = s.clientWs
  /\ up' = s.up
  /\ created' = s.created
  /\ sessionUuid' = s.sessionUuid
  /\ ws' = s.ws
  /\ audioBuffer' = s.audioBuffer
  /\ humeSocket' = s.humeSocket
  /\ queued' = s.queued
  /\ dialing' = s.dialing
  /\ pending' = s.pending
  /\ arrived' = s.arrived
  /\ settled' = s.settled
  /\ upSent' = s.upSent
  /\ clSent' = s.clSent
  /\ early' = s.early
  /\ opened' = s.opened
  /\ lateSend' = s.lateSend
  /\ crashed' = s.thrown
  /\ nInit' = s.nInit
  /\ nAudio' = s.nAudio
  /\ nRelay' = s.nRelay
  /\ nBad' = s.nBad
  /\ UNCHANGED <<arg, res>>

\* target.send(msg) on an upstream socket; target is the value of the
\* variable the code sends through (NULL: a TypeError).
upSend(s, target, msg) ==
  IF s.thrown THEN s
  ELSE IF target = NULL THEN [s EXCEPT !.thrown = TRUE]
  ELSE CASE sendOutcome(s.up[target]) = "sent" ->
              [s EXCEPT !.upSent = Append(@, [to |-> target, msg |-> msg])]
         [] sendOutcome(s.up[target]) = "throws" -> [s EXCEPT !.thrown = TRUE]
         [] OTHER -> [s EXCEPT !.lateSend = @ \cup {"upstream"}]

\* clientWs.send(msg); the client socket is never CONNECTING.
clSend(s, msg) ==
  IF s.thrown THEN s
  ELSE IF s.clientWs = "OPEN" THEN [s EXCEPT !.clSent = Append(@, msg)]
  ELSE [s EXCEPT !.lateSend = @ \cup {"client"}]

\* } catch (error) { console.error(...) }
caught(s) == [s EXCEPT !.thrown = FALSE]

\* ------------------------------------------------------ the inputs
Alive(v) == variant = v /\ ~crashed
ClientHears == clientWs \in {"OPEN", "CLOSING"}
UpstreamTalks(w) == up[w] \in {"OPEN", "CLOSING"}

\* the number of messages received so far
Inputs == nInit + nAudio + nRelay + nBad + Len(arrived)
MoreInput == Inputs < MaxInputs
MoreInit == MoreInput /\ nInit < MaxInit

\* the uuid of the next init message: every init names a session of its own
NextUuid == UuidNames[nInit + 1]

\* The payload of the next audio message: a base64 string, or no field.
Payload(kind) ==
  CASE kind = "payload" -> PayloadNames[nAudio + 1]
    [] OTHER -> UNDEFINED
Truthy(p) == p # "" /\ p # UNDEFINED

\* Byte length of the decoded payload of each client audio message.
AudioLen(p) ==
  CASE p = "p1" -> 19201
    [] p = "p2" -> 9600
    [] p = "p3" -> 1
    [] OTHER -> 9601

\* An audio frame: the bytes [from, to) of payload p.
Frame(p, from, to) == <<p, from, to>>
Whole(p) == Frame(p, 0, AudioLen(p))

\* history: a client message was received
heardInit(s) == [s EXCEPT !.nInit = @ + 1]
heardAudio(s, p) ==
  [s EXCEPT !.nAudio = @ + 1,
            !.early = IF Truthy(p) /\ ~s.opened THEN Append(@, p) ELSE @]
heardBad(s) == [s EXCEPT !.nBad = @ + 1]
\* history: a teardown before any upstream opened discards what was buffered
tornDown(s) == [s EXCEPT !.early = IF s.opened THEN @ ELSE <<>>]
heardRelay(s) == [s EXCEPT !.nRelay = @ + 1]

\* ------------------------------------------ v1: src/index.js 1-118
V1_cleanup(s) ==
  LET s1 == IF s.ws # NULL THEN [s EXCEPT !.up[s.ws] = wsClose(@)] ELSE s
  IN [s1 EXCEPT !.clientWs = wsClose(@)]

\* clientWs.on("message"), all of it inside try/catch
V1_OnInit(s, uuid) == [s EXCEPT !.sessionUuid = uuid]
V1_OnAudio(s, p) ==
  IF Truthy(p) /\ s.ws # NULL /\ readyState(s.up[s.ws]) = "OPEN"
  THEN caught(upSend(s, s.ws, UNDEFINED)) ELSE s
V1_OnMalformed(s) == caught([s EXCEPT !.thrown = TRUE])

V1_ClientInit ==
  /\ Alive("v1") /\ ClientHears /\ MoreInit
  /\ Commit(V1_OnInit(heardInit(Cur), NextUuid))

V1_ClientAudio(kind) ==
  /\ Alive("v1") /\ ClientHears /\ MoreInput
  /\ Commit(V1_OnAudio(heardAudio(Cur, Payload(kind)), Payload(kind)))

V1_ClientMalformed ==
  /\ Alive("v1") /\ ClientHears /\ MoreInput
  /\ Commit(V1_OnMalformed(heardBad(Cur)))

V1_ClientClose ==
  /\ Alive("v1") /\ clientWs \in {"OPEN", "CLOSING", "FAILED"}
  /\ Commit(V1_cleanup([Cur EXCEPT !.clientWs = "CLOSED"]))

V1_ClientError ==
  /\ Alive("v1") /\ clientWs \in {"OPEN", "CLOSING"}
  /\ Commit(V1_cleanup([Cur EXCEPT !.clientWs = "FAILED"]))

\* ---------------------------------------- js: src/index.js 120-528
\* The upstream messages the bridge sends.
AudioInput(p, uuid) == <<"audio_input", Whole(p), uuid>>
AssistantInput(uuid) == <<"assistant_input", uuid>>
ToolResponse(id, content) == <<"tool_response", id, content>>
NotFound(name) == <<"error", "not found", name>>
ExecError(name, why) == <<"error", "executing", name, why>>
Result(name, par) == <<"result", name, par>>

RECURSIVE JS_sendBuffered(_, _)
\* audioBuffer.forEach((chunk) => ws.send(...))
JS_sendBuffered(s, chunks) ==
  IF chunks = <<>> THEN s
  ELSE JS_sendBuffered(upSend(s, s.ws, AudioInput(Head(chunks), s.sessionUuid)),
                       Tail(chunks))

\* a cleanup that tells the client before it closes
JS_cleanup_notify(s) ==
  LET s0 == clSend(s, <<"error">>)
      s1 == IF s0.ws # NULL
            THEN [s0 EXCEPT !.up[s0.ws] = wsClose(@), !.ws = NULL] ELSE s0
  IN [s1 EXCEPT !.clientWs = wsClose(@), !.audioBuffer = <<>>]

JS_cleanup(s) ==
  LET s1 == IF s.ws # NULL
            THEN [s EXCEPT !.up[s.ws] = wsClose(@), !.ws = NULL] ELSE s
      s2 == IF readyState(s1.clientWs) = "OPEN"
            THEN [s1 EXCEPT !.clientWs = wsClose(@)] ELSE s1
  IN [s2 EXCEPT !.audioBuffer = <<>>]

\* ws = new WebSocket(wsUrl)
JS_initializeHumeAIConnection(s) ==
  LET w == SocketNames[s.created + 1]
  IN [s EXCEPT !.ws = w, !.up[w] = "CONNECTING", !.created = @ + 1]

\* case "init"
JS_OnInit(s, uuid) ==
  JS_initializeHumeAIConnection([s EXCEPT !.sessionUuid = uuid])

\* case "audio"
JS_OnAudio(s, p) ==
  IF ~Truthy(p) THEN s
  ELSE IF s.ws # NULL /\ readyState(s.up[s.ws]) = "OPEN"
  THEN upSend(s, s.ws, AudioInput(p, s.sessionUuid))
  ELSE [s EXCEPT !.audioBuffer = Append(@, p)]

\* JSON.parse(data) throws outside any try
JS_OnMalformed(s) == [s EXCEPT !.thrown = TRUE]

\* ws.on("open")
JS_OnOpen(s) ==
  LET s1 == IF Len(s.audioBuffer) > 0
            THEN LET f == JS_sendBuffered(s, s.audioBuffer)
                 IN IF f.thrown THEN f ELSE [f EXCEPT !.audioBuffer = <<>>]
            ELSE s
  IN upSend(s1, s1.ws, AssistantInput(s1.sessionUuid))

\* what the client is sent for an upstream event of the kind, with the text
Relayed(kind, text) ==
  CASE kind = "audio_output" -> <<"audio">>
    [] kind = "user_interruption" -> <<"interruption">>
    [] kind = "user_message" -> <<"transcript", "user", text>>
    [] kind = "assistant_message" -> <<"transcript", "agent", text>>

\* a relay that waits for the tool handlers in flight
JS_OnRelay_blocked(s, kind) ==
  IF s.pending # {} THEN s
  ELSE caught(clSend(s, Relayed(kind, TextNames[s.nRelay])))

\* ws.on("message"): audio_output, user_interruption, user_message,
\* assistant_message
JS_OnRelay(s, kind) == caught(clSend(s, Relayed(kind, TextNames[s.nRelay])))

\* the tool_call_id a tool_response carries: message.tool_call_id of the
\* handler's own message
ResponseId_last(s, c) == s.arrived[Len(s.arrived)].id
ResponseId(s, c) == c.id

\* the catch block of the tool call: an error response, and what it throws
\* is caught by the handler's outer try
JS_toolFailed(s, c, why) ==
  caught(upSend(caught(s), s.ws,
                ToolResponse(ResponseId(s, c), ExecError(c.name, why))))

Awaits(c) == c.name # "unknown" /\ c.par # "bad"

\* case "tool_call", up to the await
JS_OnToolCall(s, c) ==
  LET s1 == [s EXCEPT !.arrived = Append(@, [id |-> c.id, name |-> c.name,
                                                par |-> c.par])]
  IN IF c.name = "unknown"
     THEN caught(upSend(s1, s1.ws,
                        ToolResponse(ResponseId(s1, c), NotFound(c.name))))
     ELSE IF c.par = "bad" THEN JS_toolFailed(s1, c, "parse")
     ELSE [s1 EXCEPT !.pending = @ \cup {c}]

\* case "tool_call", from the await on
JS_OnToolSettled(s, c, outcome) ==
  LET s1 == [s EXCEPT !.pending = @ \ {c},
                      !.settled = @ \cup {<<c.id, outcome>>}]
  IN IF outcome = "ok"
     THEN LET s2 == upSend(s1, s1.ws,
                      ToolResponse(ResponseId(s1, c), Result(c.name, c.par)))
          IN IF s2.thrown THEN JS_toolFailed(s2, c, "send") ELSE s2
     ELSE JS_toolFailed(s1, c, "handler")

\* ws.on("error")
JS_OnUpstreamError(s) ==
  clSend(s, <<"error", "Connection error with HumeAI API">>)

Call(w, call) ==
  [id |-> CallIds[Len(arrived) + 1], name |-> call[1], par |-> call[2],
   from |-> w, uuid |-> sessionUuid]

JS_ClientInit ==
  /\ Alive("js") /\ ClientHears /\ MoreInit
  /\ Commit(JS_OnInit(heardInit(Cur), NextUuid))

JS_ClientAudio(kind) ==
  /\ Alive("js") /\ ClientHears /\ MoreInput
  /\ Commit(JS_OnAudio(heardAudio(Cur, Payload(kind)), Payload(kind)))

JS_ClientMalformed ==
  /\ Alive("js") /\ ClientHears /\ MoreInput
  /\ Commit(JS_OnMalformed(heardBad(Cur)))

JS_UpstreamOpen(w) ==
  /\ Alive("js") /\ up[w] = "CONNECTING"
  /\ Commit(JS_OnOpen([Cur EXCEPT !.up[w] = "OPEN", !.opened = TRUE]))

JS_UpstreamRelay(w, kind) ==
  /\ Alive("js") /\ UpstreamTalks(w) /\ MoreInput
  /\ Commit(JS_OnRelay(heardRelay(Cur), kind))

JS_UpstreamToolCall(w, call) ==
  /\ Alive("js") /\ UpstreamTalks(w) /\ MoreInput
  /\ Commit(JS_OnToolCall(Cur, Call(w, call)))

JS_ToolSettled(c, outcome) ==
  /\ Alive("js") /\ c \in pending
  /\ Commit(JS_OnToolSettled(Cur, c, outcome))

JS_UpstreamError(w) ==
  /\ Alive("js") /\ up[w] \in {"CONNECTING", "OPEN", "ABORTING"}
  /\ Commit(JS_OnUpstreamError([Cur EXCEPT !.up[w] = "FAILED"]))

JS_UpstreamClose(w) ==
  /\ Alive("js") /\ up[w] \in {"OPEN", "CLOSING", "FAILED"}
  /\ Commit(tornDown(JS_cleanup([Cur EXCEPT !.up[w] = "CLOSED"])))

JS_ClientClose ==
  /\ Alive("js") /\ clientWs \in {"OPEN", "CLOSING", "FAILED"}
  /\ Commit(tornDown(JS_cleanup([Cur EXCEPT !.clientWs = "CLOSED"])))

JS_ClientError ==
  /\ Alive("js") /\ clientWs \in {"OPEN", "CLOSING"}
  /\ Commit(tornDown(JS_cleanup([Cur EXCEPT !.clientWs = "FAILED"])))

\* ===================================================== the WAV parsers
\* src/unnamed/part_000 (parseWav), src/index.js (stripWavHeader, called
\* stripWavHeader_js here), src/src/lib.ts (stripWavHeader)
MaxPayload == 4
MaxPayloadByte == 4
MaxPieces == 3
SearchLimit == 200
MinWavLength == 44

RIFF == <<82, 73, 70, 70>>
WAVE == <<87, 65, 86, 69>>
FMT_MARKER == <<102, 109, 116, 32>>
DATA_MARKER == <<100, 97, 116, 97>>

RECURSIVE Pow256(_)
Pow256(k) == IF k = 0 THEN 1 ELSE 256 * Pow256(k - 1)
\* the k bytes of n, little-endian
LE(n, k) == [i \in 1..k |-> (n \div Pow256(i - 1)) % 256]

RECURSIVE readUIntBE(_, _, _)
\* the same read, most significant byte first
readUIntBE(buf, offset, k) ==
  IF k = 0 THEN 0
  ELSE buf[offset + 1] * Pow256(k - 1) + readUIntBE(buf, offset + 1, k - 1)

RECURSIVE readUIntLE(_, _, _)
\* buffer.readUInt16LE(offset), buffer.readUInt32LE(offset): k bytes from the
\* 0-based offset, which the caller has checked to lie inside the buffer
readUIntLE(buf, offset, k) ==
  IF k = 0 THEN 0
  ELSE buf[offset + 1] + 256 * readUIntLE(buf, offset + 1, k - 1)
\* the read throws a RangeError
OutOfRange(buf, offset, k) == offset + k > Len(buf)

Min(a, b) == IF a < b THEN a ELSE b
\* buffer.subarray(start, end), buffer.slice(start, end) on 0-based offsets
slice(buf, start, end) ==
  SubSeq(buf, Min(start, Len(buf)) + 1, Min(end, Len(buf)))
\* buffer.toString("ascii", start, end): the high bit of every byte is unset
toAscii(buf, start, end) ==
  [i \in 1..Len(slice(buf, start, end)) |-> slice(buf, start, end)[i] % 128]

\* buffer.subarray(0, searchLimit).indexOf(marker): the 0-based offset of the
\* first occurrence that lies inside the searched bytes, or -1
indexOf(buf, marker) ==
  LET limit == Min(Len(buf), SearchLimit)
      hits == {i \in 0..limit : /\ i + Len(marker) <= limit
                                /\ slice(buf, i, i + Len(marker)) = marker}
  IN IF hits = {} THEN -1 ELSE CHOOSE i \in hits : \A j \in hits : i <= j

\* src/unnamed/part_000: parseWav
parseWav(buf) ==
  LET fmtIndex == indexOf(buf, FMT_MARKER)
      fmtDataStart == fmtIndex + 8
      dataIndex == indexOf(buf, DATA_MARKER)
  IN IF fmtIndex = -1 THEN [kind |-> "null"]
     ELSE IF \/ OutOfRange(buf, fmtDataStart + 2, 2)
             \/ OutOfRange(buf, fmtDataStart + 4, 4)
             \/ OutOfRange(buf, fmtDataStart + 14, 2)
     THEN [kind |-> "throws"]
     ELSE IF dataIndex = -1 THEN [kind |-> "null"]
     ELSE [kind |-> "info",
           sampleRate |-> readUIntLE(buf, fmtDataStart + 4, 4),
           channels |-> readUIntLE(buf, fmtDataStart + 2, 2),
           bitsPerSample |-> readUIntLE(buf, fmtDataStart + 14, 2),
           pcmData |-> slice(buf, dataIndex + 8, Len(buf))]

\* src/src/lib.ts: stripWavHeader
stripWavHeader(buf) ==
  LET dataIndex == indexOf(buf, DATA_MARKER)
  IN IF dataIndex = -1 THEN buf ELSE slice(buf, dataIndex + 8, Len(buf))

\* src/unnamed/part_001: the for loop of stripWavHeader: the first i below
\* min(length, 200) with buffer.slice(i, i + 4) equal to the marker, or -1
loopIndex(buf, marker) ==
  LET limit == Min(Len(buf), SearchLimit)
      hits == {i \in 0..(limit - 1) : slice(buf, i, i + 4) = marker}
  IN IF hits = {} THEN -1 ELSE CHOOSE i \in hits : \A j \in hits : i <= j

\* src/unnamed/part_001: stripWavHeader
stripWavHeader_loop(buf) ==
  LET dataIndex == loopIndex(buf, DATA_MARKER)
  IN IF dataIndex = -1 THEN buf ELSE slice(buf, dataIndex + 8, Len(buf))

\* the walk of stripWavHeader has returned, or stands before the sub-chunk at
\* the offset
Walking(offset) == [done |-> FALSE, offset |-> offset]

\* the walk moves to an offset taken from the declared size alone
nextOffset_size(dataStart, chunkSize) == chunkSize

\* src/index.js: offset = dataStart + chunkSize
nextOffset(dataStart, chunkSize) == dataStart + chunkSize

\* a walk that gives up on a data chunk whose declared size overruns the
\* buffer
walkStep_strict(buf, offset) ==
  IF offset + 8 <= Len(buf)
  THEN LET chunkId == toAscii(buf, offset, offset + 4)
           chunkSize == readUIntLE(buf, offset + 4, 4)
           dataStart == offset + 8
       IN IF chunkId = DATA_MARKER
          THEN IF dataStart + chunkSize > Len(buf)
               THEN Returned(buf)
               ELSE Returned(slice(buf, dataStart, dataStart + chunkSize))
          ELSE Walking(nextOffset(dataStart, chunkSize))
  ELSE Returned(buf)

\* src/index.js: one test of the while condition of stripWavHeader and the
\* iteration or the final return that follows it
walkStep(buf, offset) ==
  IF offset + 8 <= Len(buf)
  THEN LET chunkId == toAscii(buf, offset, offset + 4)
           chunkSize == readUIntLE(buf, offset + 4, 4)
           dataStart == offset + 8
       IN IF chunkId = DATA_MARKER
          THEN Returned(slice(buf, dataStart,
                              Min(dataStart + chunkSize, Len(buf))))
          ELSE Walking(nextOffset(dataStart, chunkSize))
  ELSE Returned(buf)

RECURSIVE walkChunks(_, _)
\* src/index.js: the while loop of stripWavHeader
walkChunks(buf, offset) ==
  LET r == walkStep(buf, offset)
  IN IF r.done THEN r.val ELSE walkChunks(buf, r.offset)

\* src/index.js: the quick checks of stripWavHeader
notWav(buf) ==
  \/ Len(buf) < MinWavLength
  \/ toAscii(buf, 0, 4) # RIFF
  \/ toAscii(buf, 8, 12) # WAVE

\* src/index.js: stripWavHeader
stripWavHeader_js(buf) == IF notWav(buf) THEN buf ELSE walkChunks(buf, 12)

\* a container: the RIFF/WAVE magic, a 16-byte PCM 'fmt ' chunk, a 'data'
\* chunk
Container(channels, rate, bits, payload) ==
  RIFF \o LE(36 + Len(payload), 4) \o WAVE
    \o FMT_MARKER \o LE(16, 4) \o LE(1, 2) \o LE(channels, 2) \o LE(rate, 4)
    \o LE((rate * channels * bits) \div 8, 4)
    \o LE((channels * bits) \div 8, 2) \o LE(bits, 2)
    \o DATA_MARKER \o LE(Len(payload), 4) \o payload

\* what an audio_output event may carry: a sound container, or raw PCM
SoundWav == Container(1, 48000, 16, <<1, 2>>)
RawPcm == <<1, 2>>

\* ------------------------------------------- ts: src/src/index.ts
\* The frames sendAudioInChunks cuts payload p into, in emission order.
Chunks(p) ==
  LET len == AudioLen(p)
      n == (len + CHUNK_SIZE - 1) \div CHUNK_SIZE
  IN IF len <= CHUNK_SIZE THEN <<Whole(p)>>
     ELSE [i \in 1..n |->
             Frame(p, (i - 1) * CHUNK_SIZE,
                   IF i * CHUNK_SIZE < len THEN i * CHUNK_SIZE ELSE len)]

RECURSIVE TS_sendFrames(_, _)
TS_sendFrames(s, frames) ==
  IF frames = <<>> THEN s
  ELSE TS_sendFrames(upSend(s, s.humeSocket, <<"audio_input", Head(frames)>>),
                     Tail(frames))

HumeReady(s) ==
  s.humeSocket # NULL /\ readyState(s.up[s.humeSocket]) = "OPEN"

TS_sendAudioInChunks(s, p) ==
  IF ~HumeReady(s) THEN s ELSE caught(TS_sendFrames(s, Chunks(p)))

RECURSIVE TS_flushFrom(_, _)
\* the loop of flushQueue; Buffer.from(undefined, "base64") throws
TS_flushFrom(s, i) ==
  IF s.thrown \/ i > Len(s.queued) THEN s
  ELSE IF s.queued[i] = UNDEFINED THEN [s EXCEPT !.thrown = TRUE]
  ELSE TS_flushFrom(TS_sendAudioInChunks(s, s.queued[i]), i + 1)

TS_flushQueue(s) ==
  IF ~HumeReady(s) \/ Len(s.queued) = 0 THEN s
  ELSE LET f == TS_flushFrom(s, 1)
       IN IF f.thrown THEN caught(f) ELSE [f EXCEPT !.queued = <<>>]

\* clientWs.on("message"): } catch (error) { clientWs.close() }
TS_catchClose(s) ==
  IF s.thrown THEN [caught(s) EXCEPT !.clientWs = wsClose(@)] ELSE s

\* case "audio"
TS_OnAudio(s, p) ==
  TS_catchClose(TS_flushQueue([s EXCEPT !.queued = Append(@, p)]))

\* JSON.parse(data) throws inside the try
TS_OnMalformed(s) == TS_catchClose([s EXCEPT !.thrown = TRUE])

\* case "init", up to the await
TS_OnInit(s) == [s EXCEPT !.dialing = @ + 1]

\* case "init", from the await on: the SDK hands over a socket that has
\* started connecting, and the handler continues in the same turn
TS_OnConnected(s) ==
  LET w == SocketNames[s.created + 1]
      s1 == [s EXCEPT !.dialing = @ - 1, !.created = @ + 1,
                      !.up[w] = "CONNECTING", !.humeSocket = w]
  IN TS_catchClose(IF HumeReady(s1) THEN TS_flushQueue(s1) ELSE s1)

\* case "init": the connect promise rejects
TS_OnConnectFailed(s) ==
  TS_catchClose([s EXCEPT !.dialing = @ - 1, !.thrown = TRUE])

\* humeSocket.on("open"), on the socket the handler was registered on
TS_OnOpen(s, w) == upSend(s, w, <<"session_settings">>)

\* humeSocket.on("message")
\* humeSocket.on("message"): audio_output with the decoded data
TS_OnAudioOutput(s, data) ==
  IF parseWav(data).kind = "info" /\ s.clientWs = "OPEN"
  THEN caught(clSend(s, <<"audio">>)) ELSE s

\* humeSocket.on("message"): an event of the kind; audio_output carries a
\* sound container
TS_OnRelay(s, kind) ==
  IF kind = "audio_output" THEN TS_OnAudioOutput(s, SoundWav) ELSE s

\* humeSocket.on("close")
TS_OnUpstreamClose(s) ==
  IF s.clientWs = "OPEN" THEN [s EXCEPT !.clientWs = wsClose(@)] ELSE s

\* clientWs.on("close")
TS_OnClientClose(s) ==
  IF HumeReady(s) THEN [s EXCEPT !.up[s.humeSocket] = wsClose(@)] ELSE s

\* no clientWs.on("error"): the emitter throws the error
TS_OnClientError(s) == [s EXCEPT !.thrown = TRUE]

TS_ClientInit ==
  /\ Alive("ts") /\ ClientHears /\ MoreInit
  /\ Commit(TS_OnInit(heardInit(Cur)))

TS_Connected ==
  /\ Alive("ts") /\ dialing > 0
  /\ Commit(TS_OnConnected(Cur))

TS_ConnectFailed ==
  /\ Alive("ts") /\ dialing > 0
  /\ Commit(TS_OnConnectFailed(Cur))

TS_ClientAudio(kind) ==
  /\ Alive("ts") /\ ClientHears /\ MoreInput
  /\ Commit(TS_OnAudio(heardAudio(Cur, Payload(kind)), Payload(kind)))

TS_ClientMalformed ==
  /\ Alive("ts") /\ ClientHears /\ MoreInput
  /\ Commit(TS_OnMalformed(heardBad(Cur)))

TS_UpstreamOpen(w) ==
  /\ Alive("ts") /\ up[w] = "CONNECTING"
  /\ Commit(TS_OnOpen([Cur EXCEPT !.up[w] = "OPEN", !.opened = TRUE], w))

TS_UpstreamRelay(w, kind) ==
  /\ Alive("ts") /\ UpstreamTalks(w) /\ MoreInput
  /\ Commit(TS_OnRelay(heardRelay(Cur), kind))

\* an audio_output event whose data is raw PCM
TS_UpstreamRawAudio(w) ==
  /\ Alive("ts") /\ UpstreamTalks(w) /\ MoreInput
  /\ Commit(TS_OnAudioOutput(heardRelay(Cur), RawPcm))

TS_UpstreamError(w) ==
  /\ Alive("ts") /\ up[w] \in {"CONNECTING", "OPEN", "ABORTING"}
  /\ Commit([Cur EXCEPT !.up[w] = "FAILED"])

TS_UpstreamClose(w) ==
  /\ Alive("ts") /\ up[w] \in {"OPEN", "CLOSING", "FAILED"}
  /\ Commit(TS_OnUpstreamClose([Cur EXCEPT !.up[w] = "CLOSED"]))

TS_ClientClose ==
  /\ Alive("ts") /\ clientWs \in {"OPEN", "CLOSING", "FAILED"}
  /\ Commit(TS_OnClientClose([Cur EXCEPT !.clientWs = "CLOSED"]))

TS_ClientError ==
  /\ Alive("ts") /\ clientWs \in {"OPEN", "CLOSING"}
  /\ Commit(TS_OnClientError([Cur EXCEPT !.clientWs = "FAILED"]))

NextV1 ==
  \/ V1_ClientInit
  \/ \E k \in AudioKinds : V1_ClientAudio(k)
  \/ V1_ClientMalformed
  \/ V1_ClientClose
  \/ V1_ClientError

NextJS ==
  \/ JS_ClientInit
  \/ \E k \in AudioKinds : JS_ClientAudio(k)
  \/ JS_ClientMalformed
  \/ \E w \in Sockets : JS_UpstreamOpen(w)
  \/ \E w \in Sockets, k \in RelayKinds : JS_UpstreamRelay(w, k)
  \/ \E w \in Sockets, c \in ToolCalls : JS_UpstreamToolCall(w, c)
  \/ \E c \in pending, o \in {"ok", "fail"} : JS_ToolSettled(c, o)
  \/ \E w \in Sockets : JS_UpstreamError(w)
  \/ \E w \in Sockets : JS_UpstreamClose(w)
  \/ JS_ClientClose
  \/ JS_ClientError

NextTS ==
  \/ TS_ClientInit
  \/ TS_Connected
  \/ TS_ConnectFailed
  \/ \E k \in AudioKinds : TS_ClientAudio(k)
  \/ TS_ClientMalformed
  \/ \E w \in Sockets : TS_UpstreamOpen(w)
  \/ \E w \in Sockets, k \in RelayKinds : TS_UpstreamRelay(w, k)
  \/ \E w \in Sockets : TS_UpstreamRawAudio(w)
  \/ \E w \in Sockets : TS_UpstreamError(w)
  \/ \E w \in Sockets : TS_UpstreamClose(w)
  \/ TS_ClientClose
  \/ TS_ClientError

Next == NextV1 \/ NextJS \/ NextTS

Spec == Init /\ [][Next]_vars

\* ================================================================ claims
\* The frames of the audio_input messages sent upstream, in the order sent.
IsAudio(e) == e.msg[1] = "audio_input"
AudioSent == [i \in 1..Len(SelectSeq(upSent, IsAudio)) |->
                SelectSeq(upSent, IsAudio)[i].msg[2]]

RECURSIVE Expected(_)
\* The frames the payloads ps are to be sent as: each payload whole (js),
\* or cut by the chunker (ts).
Expected(ps) ==
  IF ps = <<>> THEN <<>>
  ELSE (IF variant = "ts" THEN Chunks(Head(ps)) ELSE <<Whole(Head(ps))>>)
       \o Expected(Tail(ps))

Occurrences(seq, x) == Cardinality({i \in 1..Len(seq) : seq[i] = x})

\* the payloads waiting in the pending audio queue
IsPayload(p) == Truthy(p)
PendingPayloads ==
  IF variant = "ts" THEN SelectSeq(queued, IsPayload) ELSE audioBuffer

\* C1: every audio message with a payload received before the upstream
\* opened is sent upstream once, in the order received: the stream of
\* frames sent starts with the frames of those messages, in order, and none
\* of them is sent a second time.
C1_EarlyAudioOnceInOrder ==
  /\ \/ IsPrefix(AudioSent, Expected(early))
     \/ IsPrefix(Expected(early), AudioSent)
  /\ \A i \in 1..Len(AudioSent) : Occurrences(AudioSent, AudioSent[i]) = 1

\* C2: the upstream socket's opening itself flushes the pending queue: the
\* 'open' step sends every queued payload, in order, and leaves the queue
\* empty, with no further client message needed.
C2_OpenFlushesQueue ==
  [][\A w \in Sockets :
       (up[w] = "CONNECTING" /\ up'[w] = "OPEN")
         => /\ AudioSent' = AudioSent \o Expected(PendingPayloads)
            /\ PendingPayloads' = <<>>]_vars

\* ------------------------------------------------------------ tool calls
IsResponse(e) == e.msg[1] = "tool_response"
Responses == SelectSeq(upSent, IsResponse)
\* the step appends exactly the message m, to some upstream socket
SendsOnly(m) == \E w \in Sockets : upSent' = Append(upSent, [to |-> w, msg |-> m])
SendsNothing == upSent' = upSent
ArrivalStep == Len(arrived') = Len(arrived) + 1
Arriving == arrived'[Len(arrived')]
\* the session is open: the client socket and an upstream socket are open
\* and no socket is closing
SessionOpen ==
  /\ ~crashed
  /\ clientWs = "OPEN"
  /\ \E w \in Sockets : up[w] = "OPEN"
  /\ \A w \in Sockets : up[w] \notin {"CLOSING", "ABORTING", "FAILED"}
\* what the step leaves alone when it only sends upstream
SessionUntouched ==
  /\ UNCHANGED <<clientWs, up, created, sessionUuid, ws, audioBuffer,
                 humeSocket, queued, dialing, clSent, lateSend>>
  /\ ~crashed'

\* C3: a tool_response carries the call id of the tool call whose handler
\* produced its content, whatever order the handlers complete in: the step
\* in which a call is answered (its handler settles, or the call is refused
\* on arrival) sends nothing, or one tool_response with that call's id and
\* that call's content, appended in completion order.
C3_ResponsesCarryOwnId ==
  [][/\ \A c \in pending :
          c \notin pending'
            => \/ SendsNothing
               \/ \E content \in {Result(c.name, c.par),
                                  ExecError(c.name, "handler"),
                                  ExecError(c.name, "send")} :
                    SendsOnly(ToolResponse(c.id, content))
     /\ ArrivalStep
          => \/ SendsNothing
             \/ \E content \in {NotFound(Arriving.name),
                                ExecError(Arriving.name, "parse")} :
                  SendsOnly(ToolResponse(Arriving.id, content))]_vars

\* C3 witness: two calls were in flight together and B, made second, was
\* answered first; both answers carry their handler's result.
C3_Witness ==
  /\ Len(Responses) = 2
  /\ Responses[1].msg = ToolResponse("B", Result("known", "good"))
  /\ Responses[2].msg = ToolResponse("A", Result("known", "good"))

\* C4: in an open session a tool_call with no registered handler yields
\* exactly one tool_response, with that call's id and an error payload, and
\* changes nothing else.
C4_UnknownToolAnswered ==
  [][(ArrivalStep /\ Arriving.name = "unknown" /\ SessionOpen)
       => /\ SendsOnly(ToolResponse(Arriving.id, NotFound(Arriving.name)))
          /\ SessionUntouched
          /\ pending' = pending]_vars

\* C5: in an open session a known tool's failure (unparsable parameters on
\* arrival, or a handler that throws or rejects) yields a tool_response with
\* that call's id and an error payload, and the session stays open.
C5_HandlerFailureAnswered ==
  [][/\ (ArrivalStep /\ Arriving.name = "known" /\ Arriving.par = "bad"
           /\ SessionOpen)
          => /\ SendsOnly(ToolResponse(Arriving.id,
                                       ExecError(Arriving.name, "parse")))
             /\ SessionUntouched
     /\ \A c \in pending :
          (<<c.id, "fail">> \in settled' \ settled /\ SessionOpen)
            => /\ SendsOnly(ToolResponse(c.id, ExecError(c.name, "handler")))
               /\ SessionUntouched]_vars

\* ---------------------------------------------------------------- teardown
Live(w) == up[w] \in {"CONNECTING", "OPEN"}

\* C6: teardown is symmetric: once the client socket has closed or failed no
\* upstream socket is left connecting or open, and once an upstream socket
\* has closed the client socket is no longer open.
C6_TeardownSymmetric ==
  /\ clientWs \in {"CLOSED", "FAILED"} => \A w \in Sockets : ~Live(w)
  /\ (\E w \in Sockets : up[w] = "CLOSED") => clientWs # "OPEN"

\* C7: no send is attempted on a socket after it has closed.
C7_NoSendAfterClose == lateSend = {}

\* C8: teardown is idempotent: a second cleanup, after a first, raises
\* nothing and changes nothing (no socket state, no message, no session
\* state).
C8_CleanupIdempotent ==
  /\ variant = "js" =>
       /\ JS_cleanup(JS_cleanup(Cur)) = JS_cleanup(Cur)
       /\ ~JS_cleanup(Cur).thrown
  /\ variant = "v1" =>
       /\ V1_cleanup(V1_cleanup(Cur)) = V1_cleanup(Cur)
       /\ ~V1_cleanup(Cur).thrown

\* C8 witness: both sides have closed, so cleanup has run from the client's
\* close and from the upstream's close.
C8_Witness ==
  /\ variant = "js"
  /\ clientWs = "CLOSED"
  /\ up["w1"] = "CLOSED"
  /\ Cur = JS_cleanup(Cur)

\* C9: an init after the first is ignored: it dials nothing and leaves the
\* session identity alone.
C9_SecondInitIgnored ==
  [][(nInit >= 1 /\ nInit' = nInit + 1)
       => UNCHANGED <<created, dialing, sessionUuid, ws, up>>]_vars

\* C10: a client message that is not valid JSON is dropped: no socket is
\* closed, no session state changes, the process lives on.
C10_MalformedDropped ==
  [][nBad' = nBad + 1
       => /\ ~crashed'
          /\ UNCHANGED <<clientWs, up, created, sessionUuid, ws, audioBuffer,
                         humeSocket, queued, dialing, pending, upSent,
                         clSent>>]_vars

\* --------------------------------------------------- audio without payload
\* the step receives a client audio message that has no audio field
EmptyAudioStep ==
  \/ V1_ClientAudio("undefined")
  \/ JS_ClientAudio("undefined")
  \/ TS_ClientAudio("undefined")

\* C11: an audio message with no payload is a no-op in every state: nothing
\* is sent upstream, nothing is added to the pending queue, no socket or
\* session state changes, so later audio is forwarded as if the message had
\* never come.
C11_EmptyAudioNoOp ==
  [][EmptyAudioStep
       => /\ UNCHANGED <<clientWs, up, created, sessionUuid, ws, audioBuffer,
                         humeSocket, queued, dialing, pending, upSent,
                         clSent, lateSend>>
          /\ ~crashed']_vars

\* ------------------------------------------------------------ dial failure
\* the step is a failed dial: a socket error before the socket opened, or a
\* connect promise that rejects
DialFails ==
  \/ \E w \in Sockets : up[w] = "CONNECTING" /\ up'[w] = "FAILED"
  \/ dialing' = dialing - 1 /\ created' = created
IsError(m) == m[1] = "error"

\* C12: a failed dial sends the open client one structured error message
\* and is not retried, and the session ends: after a rejected connect, and
\* after the close that follows a socket error, the client socket is no
\* longer open.
C12_DialFailureReported ==
  [][/\ (DialFails /\ clientWs = "OPEN")
          => /\ Len(clSent') = Len(clSent) + 1
             /\ IsError(clSent'[Len(clSent')])
             /\ SubSeq(clSent', 1, Len(clSent)) = clSent
             /\ created' = created
             /\ dialing' <= dialing
     /\ (dialing' = dialing - 1 /\ created' = created) => clientWs' # "OPEN"
     /\ (\E w \in Sockets : up[w] = "FAILED" /\ up'[w] = "CLOSED")
          => clientWs' # "OPEN"]_vars

\* ================================================= the chunker on its own
MaxLen == 5
MaxByte == 1
MaxChunk == 3
Bytes == 0..MaxByte
Buffers == UNION {[1..n -> Bytes] : n \in 0..MaxLen}

\* audioBuffer.subarray(start, end): end is clamped to the buffer's length
subarray(buf, start, end) ==
  SubSeq(buf, start + 1, IF end < Len(buf) THEN end ELSE Len(buf))

RECURSIVE chunkLoop(_, _, _)
\* for (let offset = 0; offset < bufferLength; offset += CHUNK_SIZE)
chunkLoop(buf, size, offset) ==
  IF offset < Len(buf)
  THEN <<[offset |-> offset, data |-> subarray(buf, offset, offset + size)]>>
       \o chunkLoop(buf, size, offset + size)
  ELSE <<>>

\* the frames sendAudioInChunks hands to sendAudioInput, in emission order,
\* for a frame size `size`
sendAudioInChunks(buf, size) ==
  IF Len(buf) <= size THEN <<[offset |-> 0, data |-> buf]>>
  ELSE chunkLoop(buf, size, 0)

InitChunker ==
  /\ variant = "ts"
  /\ Fresh
  /\ arg \in [fn : {"sendAudioInChunks"}, buf : Buffers, size : 1..MaxChunk]
  /\ res = NoResult

ApplyChunker ==
  /\ ~res.done
  /\ arg.fn = "sendAudioInChunks"
  /\ res' = Returned(sendAudioInChunks(arg.buf, arg.size))
  /\ UNCHANGED <<bridge, arg>>

NextChunker == ApplyChunker
SpecChunker == InitChunker /\ [][NextChunker]_vars

Chunked == arg.fn = "sendAudioInChunks" /\ res.done
RECURSIVE Concat(_)
Concat(frames) ==
  IF frames = <<>> THEN <<>> ELSE Head(frames).data \o Concat(Tail(frames))
Ceil(l, c) == (l + c - 1) \div c

\* C13: chunker round trip: the frames, concatenated in emission order, are
\* the buffer, and there are ceil(L/C) of them, for every length L >= 0 and
\* frame size C > 0.
C13_ChunkerRoundTrip ==
  Chunked => /\ Concat(res.val) = arg.buf
             /\ Len(res.val) = Ceil(Len(arg.buf), arg.size)

\* ============================================== the WAV parsers on their own
\* ---- the buffers the parsers are applied to
PayloadBytes == 1..MaxPayloadByte
Payloads == UNION {[1..n -> PayloadBytes] : n \in 0..MaxPayload}
ChannelCounts == {1, 2}
SampleRates == {8000, 48000}
SampleBits == {8, 16}

Containers ==
  {[shape |-> "container", channels |-> c, rate |-> r, bits |-> b,
    payload |-> p, buf |-> Container(c, r, b, p)] :
     c \in ChannelCounts, r \in SampleRates, b \in SampleBits, p \in Payloads}

\* raw PCM: bytes with no container magic in front, which may spell a marker
Pieces == {<<1>>, <<2, 3>>, DATA_MARKER, FMT_MARKER}
RECURSIVE Join(_)
Join(ps) == IF ps = <<>> THEN <<>> ELSE Head(ps) \o Join(Tail(ps))
RawBuffers ==
  {[shape |-> "raw", channels |-> 0, rate |-> 0, bits |-> 0,
    payload |-> Join(ps), buf |-> Join(ps)] :
     ps \in UNION {[1..n -> Pieces] : n \in 1..MaxPieces}}

\* the RIFF/WAVE magic followed by sub-chunks, each a 4-byte id, a declared
\* size and the bytes that are really there
LIST_MARKER == <<76, 73, 83, 84>>
Overrun == 100
FmtBody(channels, rate, bits) ==
  LE(1, 2) \o LE(channels, 2) \o LE(rate, 4)
    \o LE((rate * channels * bits) \div 8, 4)
    \o LE((channels * bits) \div 8, 2) \o LE(bits, 2)
SubChunks ==
  {[id |-> FMT_MARKER, declared |-> 16, body |-> FmtBody(1, 8000, 16)],
   [id |-> LIST_MARKER, declared |-> 0, body |-> <<>>],
   [id |-> LIST_MARKER, declared |-> 2, body |-> <<1, 2>>],
   [id |-> LIST_MARKER, declared |-> 2 + Overrun, body |-> <<1, 2>>],
   [id |-> DATA_MARKER, declared |-> 2, body |-> <<3, 4>>],
   [id |-> DATA_MARKER, declared |-> 2 + Overrun, body |-> <<3, 4>>]}
ChunkBytes(c) == c.id \o LE(c.declared, 4) \o c.body
RECURSIVE JoinChunks(_)
JoinChunks(cs) ==
  IF cs = <<>> THEN <<>> ELSE ChunkBytes(Head(cs)) \o JoinChunks(Tail(cs))
Riff(cs) == RIFF \o LE(4 + Len(JoinChunks(cs)), 4) \o WAVE \o JoinChunks(cs)
ChunkedBuffers ==
  {[shape |-> "chunks", chunks |-> cs, buf |-> Riff(cs)] :
     cs \in UNION {[1..n -> SubChunks] : n \in 1..MaxPieces}}
\* a 'data' marker, a size and two bytes behind a run of zero bytes that
\* puts the marker before, across or behind the search limit
MarkerStarts == (SearchLimit - 6)..(SearchLimit + 1)
Padded(n) == [i \in 1..n |-> 0] \o DATA_MARKER \o LE(2, 4) \o <<3, 4>>
PaddedBuffers ==
  {[shape |-> "padded", start |-> n, buf |-> Padded(n)] : n \in MarkerStarts}
WavInputs ==
  Containers \cup RawBuffers \cup ChunkedBuffers \cup PaddedBuffers

WavParsers ==
  {"parseWav", "stripWavHeader", "stripWavHeader_js", "stripWavHeader_loop"}

InitWav ==
  /\ variant = "ts"
  /\ Fresh
  /\ arg \in {[fn |-> f, in |-> b] : f \in WavParsers, b \in WavInputs}
  /\ res = NoResult

ApplyParseWav ==
  /\ res = NoResult
  /\ arg.fn = "parseWav"
  /\ res' = Returned(parseWav(arg.in.buf))
  /\ UNCHANGED <<bridge, arg>>

ApplyStripWavHeader ==
  /\ res = NoResult
  /\ arg.fn = "stripWavHeader"
  /\ res' = Returned(stripWavHeader(arg.in.buf))
  /\ UNCHANGED <<bridge, arg>>

ApplyStripWavHeader_loop ==
  /\ res = NoResult
  /\ arg.fn = "stripWavHeader_loop"
  /\ res' = Returned(stripWavHeader_loop(arg.in.buf))
  /\ UNCHANGED <<bridge, arg>>

\* stripWavHeader of src/index.js up to the first test of the while condition
ApplyStripWavHeader_js ==
  /\ res = NoResult
  /\ arg.fn = "stripWavHeader_js"
  /\ res' = IF notWav(arg.in.buf) THEN Returned(arg.in.buf) ELSE Walking(12)
  /\ UNCHANGED <<bridge, arg>>

\* one test of the while condition, with the iteration or return it leads to
WalkChunk ==
  /\ ~res.done
  /\ res # NoResult
  /\ arg.fn = "stripWavHeader_js"
  /\ res' = walkStep(arg.in.buf, res.offset)
  /\ UNCHANGED <<bridge, arg>>

NextWav ==
  \/ ApplyParseWav
  \/ ApplyStripWavHeader
  \/ ApplyStripWavHeader_loop
  \/ ApplyStripWavHeader_js
  \/ WalkChunk
SpecWav == InitWav /\ [][NextWav]_vars

\* the calls of stripWavHeader of src/index.js: a call that has started runs
\* on until it returns
InitWalk == InitWav /\ arg.fn = "stripWavHeader_js"
NextWalk == ApplyStripWavHeader_js \/ WalkChunk
SpecWavLive == InitWalk /\ [][NextWalk]_vars /\ WF_vars(NextWalk)

Parsed(f) == arg.fn = f /\ res.done
IsContainer == arg.in.shape = "container"
IsRaw == arg.in.shape = "raw"

\* C14: for a container made of the RIFF/WAVE magic, a 'fmt ' chunk and a
\* 'data' chunk, parseWav returns the channel count, sample rate and bits
\* per sample of the fmt chunk and the data chunk's payload, and
\* stripWavHeader of src/index.js returns the data chunk's payload.
C14_ContainerParsed ==
  /\ (Parsed("parseWav") /\ IsContainer)
       => /\ res.val.kind = "info"
          /\ res.val.channels = arg.in.channels
          /\ res.val.sampleRate = arg.in.rate
          /\ res.val.bitsPerSample = arg.in.bits
          /\ res.val.pcmData = arg.in.payload
  /\ (Parsed("stripWavHeader_js") /\ IsContainer)
       => res.val = arg.in.payload

\* C14 witness: the container with channels=1, rate=8000, bits=16 and
\* payload [1,2,3,4] has been parsed to exactly that.
C14_Witness ==
  /\ Parsed("parseWav")
  /\ arg.in.buf = Container(1, 8000, 16, <<1, 2, 3, 4>>)
  /\ res.val = [kind |-> "info", sampleRate |-> 8000, channels |-> 1,
                bitsPerSample |-> 16, pcmData |-> <<1, 2, 3, 4>>]

\* C15: a buffer that does not start with the container magic is raw PCM:
\* every parser hands it on unchanged, whatever bytes it contains, and none
\* fails or drops it.
C15_RawPassThrough ==
  /\ (Parsed("stripWavHeader") /\ IsRaw) => res.val = arg.in.buf
  /\ (Parsed("stripWavHeader_js") /\ IsRaw) => res.val = arg.in.buf
  /\ (Parsed("parseWav") /\ IsRaw)
       => /\ res.val.kind = "info"
          /\ res.val.pcmData = arg.in.buf

\* ------------------------------------------------------------------ relay
\* the step receives the upstream event of kind k
RelayStep(k) ==
  \E w \in Sockets : JS_UpstreamRelay(w, k) \/ TS_UpstreamRelay(w, k)

\* C16: every upstream user_message, assistant_message and
\* user_interruption reaches the open client as exactly one message, the
\* transcript with the role and text of the event or the interruption,
\* appended in the order the events arrived.
C16_EventsRelayed ==
  [][\A k \in {"user_message", "assistant_message", "user_interruption"} :
       (RelayStep(k) /\ clientWs = "OPEN")
         => clSent' = Append(clSent, Relayed(k, TextNames[nRelay']))]_vars

\* C17: every frame the chunker emits is non-empty and at most C bytes,
\* offsets strictly increase, every frame but the last is exactly C bytes,
\* and an empty buffer yields no frame.
C17_FramesWellFormed ==
  Chunked =>
    /\ \A i \in 1..Len(res.val) :
         /\ Len(res.val[i].data) > 0
         /\ Len(res.val[i].data) <= arg.size
         /\ i < Len(res.val) => Len(res.val[i].data) = arg.size
         /\ i > 1 => res.val[i - 1].offset < res.val[i].offset
    /\ arg.buf = <<>> => res.val = <<>>

\* ------------------------------------------------------- queue discipline
\* the upstream socket the session sends audio through is open
Ready ==
  \/ variant = "js" /\ ws # NULL /\ up[ws] = "OPEN"
  \/ variant = "ts" /\ humeSocket # NULL /\ up[humeSocket] = "OPEN"
\* the step receives a client audio message with a payload
PayloadStep == JS_ClientAudio("payload") \/ TS_ClientAudio("payload")
\* the step sends a frame of payload p upstream
SendsFrameOf(p) ==
  \E i \in (Len(AudioSent) + 1)..Len(AudioSent') : AudioSent'[i][1] = p
ArrivalIndex(p) == CHOOSE i \in 1..Len(PayloadNames) : PayloadNames[i] = p

\* C18: a client audio message goes upstream in the step that receives it
\* only when the session is READY and nothing received earlier stays queued
\* (what was queued goes first, in order); in every other case it is
\* appended to the queue.  So no frame sent upstream arrived after a payload
\* that is still queued.
C18_NoOvertaking ==
  [][/\ PayloadStep =>
          IF SendsFrameOf(Payload("payload"))
          THEN /\ Ready
               /\ AudioSent' = AudioSent
                    \o Expected(Append(PendingPayloads, Payload("payload")))
               /\ PendingPayloads' = <<>>
          ELSE PendingPayloads' = Append(PendingPayloads, Payload("payload"))
     /\ \A i \in 1..Len(AudioSent') : \A j \in 1..Len(PendingPayloads') :
          ArrivalIndex(AudioSent'[i][1]) <= ArrivalIndex(PendingPayloads'[j])
    ]_vars

\* the step starts a drain: it sends a frame of the payload at the head of
\* the pending queue
DrainStep ==
  /\ PendingPayloads # <<>>
  /\ SendsFrameOf(Head(PendingPayloads))
\* what the drain of this step has to send: the queue, and behind it the
\* payload the step's own audio message has just appended
Draining ==
  IF TS_ClientAudio("payload")
  THEN Append(PendingPayloads, Payload("payload")) ELSE PendingPayloads
\* the step's first n sends to the upstream are audio frames
AudioFirst(n) ==
  /\ Len(upSent') >= Len(upSent) + n
  /\ \A i \in (Len(upSent) + 1)..(Len(upSent) + n) : IsAudio(upSent'[i])

\* C19: a drain is atomic and in arrival order: the step that starts it
\* sends every queued frame, in arrival order, back to back with no other
\* upstream send in between, and ends with the queue cleared, so that no
\* audio message is pushed into a queue whose drain has not finished.
C19_DrainAtomic ==
  [][DrainStep
       => /\ AudioSent' = AudioSent \o Expected(Draining)
          /\ AudioFirst(Len(Expected(Draining)))
          /\ PendingPayloads' = <<>>]_vars

\* --------------------------------------------------------------- terminal
\* the session has been torn down: a socket of it has closed
Closed ==
  \/ clientWs \in {"CLOSED", "FAILED"}
  \/ \E w \in Sockets : up[w] = "CLOSED"

\* C20: CLOSED is terminal: once a socket of the session has closed, no
\* event dials an upstream connection, opens a socket, or sends (or tries
\* to send) anything to either peer.
C20_ClosedTerminal ==
  [][Closed
       => /\ created' = created
          /\ dialing' <= dialing
          /\ \A w \in Sockets : up'[w] = "OPEN" => up[w] = "OPEN"
          /\ clientWs' = "OPEN" => clientWs = "OPEN"
          /\ UNCHANGED <<upSent, clSent, lateSend>>]_vars

\* ------------------------------------------------- pending tool handlers
\* C21: while tool handlers are pending the session keeps processing
\* events: client audio goes upstream, upstream events are relayed to the
\* client, further tool calls are dispatched, and none of it completes or
\* disturbs a pending handler.
C21_PendingDoesNotBlock ==
  [][(pending # {} /\ variant = "js")
       => /\ (JS_ClientAudio("payload") /\ Ready)
               => /\ AudioSent' = Append(AudioSent, Whole(Payload("payload")))
                  /\ pending' = pending
          /\ \A k \in RelayKinds :
               (RelayStep(k) /\ clientWs = "OPEN")
                 => /\ clSent' = Append(clSent, Relayed(k, TextNames[nRelay']))
                    /\ pending' = pending
          /\ ArrivalStep
               => /\ pending \subseteq pending'
                  /\ \/ \E c \in pending' \ pending : c.id = Arriving.id
                     \/ Len(Responses') = Len(Responses) + 1
                     \/ ~Ready]_vars

\* C21 witness: call A is still pending; after it arrived call B was
\* dispatched and answered, and after that client audio went upstream.
C21_Witness ==
  /\ \E c \in pending : c.id = "A"
  /\ Len(arrived) = 2
  /\ Len(Responses) = 1
  /\ Responses[1].msg[2] = "B"
  /\ Len(upSent) >= 2
  /\ IsResponse(upSent[Len(upSent) - 1])
  /\ IsAudio(upSent[Len(upSent)])

\* the step completes the pending handler of call c
SettleStep(c) == c \in pending /\ c \notin pending'

\* the session of the pending call c has closed: the socket that delivered
\* the call has closed, or the client socket has
ClosedFor(c) ==
  \/ up[c.from] = "CLOSED"
  \/ clientWs \in {"CLOSED", "FAILED"}

\* C22: when the session has closed while a tool handler was in flight, the
\* handler still completes, and its completion sends no tool_response on
\* any upstream socket and raises no unhandled error.
C22_LateResultDiscarded ==
  [][\A c \in pending :
       (SettleStep(c) /\ ClosedFor(c))
         => /\ upSent' = upSent
            /\ ~crashed']_vars

\* ------------------------------------------------ malformed containers
WellFormed(c) == c.declared = Len(c.body)
\* the position of the first 'data' sub-chunk of the input, or 0
FirstData ==
  LET cs == arg.in.chunks
      at == {i \in 1..Len(cs) : cs[i].id = DATA_MARKER}
  IN IF at = {} THEN 0 ELSE CHOOSE i \in at : \A j \in at : i <= j
\* the bytes from the payload of the first data sub-chunk to the buffer end
PayloadToEnd ==
  LET cs == arg.in.chunks
  IN cs[FirstData].body \o JoinChunks(SubSeq(cs, FirstData + 1, Len(cs)))
\* a container whose sub-chunks up to the data chunk are sound and hold a
\* 'fmt ' chunk, and whose data chunk declares more bytes than follow it
OverrunContainer ==
  /\ arg.in.shape = "chunks"
  /\ FirstData > 0
  /\ \A j \in 1..(FirstData - 1) : WellFormed(arg.in.chunks[j])
  /\ \E j \in 1..(FirstData - 1) : arg.in.chunks[j].id = FMT_MARKER
  /\ arg.in.chunks[FirstData].declared > Len(PayloadToEnd)

\* C23: when the data chunk of a container declares a size that runs past
\* the end of the buffer, no parser fails: each returns as payload the bytes
\* from the start of the data chunk's payload to the end of the buffer.
C23_OverrunClamped ==
  /\ (Parsed("stripWavHeader_js") /\ OverrunContainer)
       => res.val = PayloadToEnd
  /\ (Parsed("stripWavHeader") /\ OverrunContainer)
       => res.val = PayloadToEnd
  /\ (Parsed("parseWav") /\ OverrunContainer)
       => /\ res.val.kind = "info"
          /\ res.val.pcmData = PayloadToEnd

\* C23 witness: the walk of src/index.js has passed a fmt chunk and a LIST
\* chunk and returned the two bytes behind a data header that declares 102.
C23_Witness ==
  /\ Parsed("stripWavHeader_js")
  /\ OverrunContainer
  /\ Len(arg.in.chunks) = 3
  /\ arg.in.chunks[3].declared = 2 + Overrun
  /\ res.val = <<3, 4>>

\* a buffer with the container magic and no 'data' sub-chunk
NoDataChunk == arg.in.shape = "chunks" /\ FirstData = 0

\* C24: a buffer that carries the container magic and holds no 'data' chunk
\* comes back from every parser as the original buffer, so that the audio is
\* forwarded and not discarded.
C24_NoDataKeepsAudio ==
  /\ (Parsed("stripWavHeader_js") /\ NoDataChunk) => res.val = arg.in.buf
  /\ (Parsed("stripWavHeader") /\ NoDataChunk) => res.val = arg.in.buf
  /\ (Parsed("parseWav") /\ NoDataChunk)
       => /\ res.val.kind = "info"
          /\ res.val.pcmData = arg.in.buf

\* C30: the sub-chunk walk of stripWavHeader ends for every buffer and every
\* declared size, zero and overrunning sizes included: each iteration that
\* does not return moves the offset strictly forward, and every call returns.
C30_WalkTerminates ==
  /\ [][WalkChunk => (res'.done \/ res'.offset > res.offset)]_vars
  /\ <>res.done

\* C30 witness: the walk has stepped over a sub-chunk of declared size 0 and
\* one whose size overruns the buffer, and has returned the buffer.
C30_Witness ==
  /\ Parsed("stripWavHeader_js")
  /\ arg.in.shape = "chunks"
  /\ Len(arg.in.chunks) = 3
  /\ arg.in.chunks[1].id = FMT_MARKER
  /\ arg.in.chunks[2].declared = 0
  /\ arg.in.chunks[3].id = LIST_MARKER
  /\ arg.in.chunks[3].declared = 2 + Overrun
  /\ res.val = arg.in.buf

\* ------------------------------------------------------------ audio relay
\* the step receives an upstream audio_output event
AudioOutputStep ==
  \/ RelayStep("audio_output")
  \/ \E w \in Sockets : TS_UpstreamRawAudio(w)

\* C25: while the client socket is open, every upstream audio_output event
\* puts exactly one audio message at the end of what the client has been
\* sent, so that the audio reaches the client in arrival order, also while
\* tool handlers are pending.
C25_AudioRelayedInOrder ==
  [][(AudioOutputStep /\ clientWs = "OPEN")
       => clSent' = Append(clSent, <<"audio">>)]_vars

\* ------------------------------------------------- one answer per call
\* the step answers one call: the number of tool_responses grows by one
AnswersOne == Len(Responses') = Len(Responses) + 1

\* C26: every tool_call received while the session stays open produces
\* exactly one tool_response on every path: a call that is refused on
\* arrival (unknown tool, unparsable parameters) is answered in the arrival
\* step, a call whose handler runs is answered in the step its handler
\* settles (success, failure, or a success response that cannot be sent) and
\* not before, and no other step sends a tool_response.
C26_ExactlyOneResponse ==
  [][/\ (ArrivalStep /\ SessionOpen)
          => IF Awaits(Arriving) THEN Responses' = Responses ELSE AnswersOne
     /\ \A c \in pending : (SettleStep(c) /\ SessionOpen) => AnswersOne
     /\ Responses' # Responses
          => /\ AnswersOne
             /\ ArrivalStep \/ \E c \in pending : SettleStep(c)]_vars

\* the step appends exactly one message, to upstream socket w
SendsOneTo(w) ==
  /\ Len(upSent') = Len(upSent) + 1
  /\ upSent' = Append(upSent, [to |-> w, msg |-> upSent'[Len(upSent')].msg])

\* C27: a tool_response goes out on the upstream socket that delivered its
\* tool_call, and the handler is started with the session identity in force
\* when the call arrived, also when client init messages are processed while
\* the handler is pending: the step that answers a call sends nothing or one
\* message to the delivering socket, and a call that starts a handler records
\* that socket and the identity of the arrival.
C27_AnsweredWhereAsked ==
  [][/\ \A w \in Sockets, call \in ToolCalls :
          JS_UpstreamToolCall(w, call)
            => /\ SendsNothing \/ SendsOneTo(w)
               /\ \A c \in pending' \ pending :
                    c.from = w /\ c.uuid = sessionUuid
     /\ \A c \in pending :
          SettleStep(c) => SendsNothing \/ SendsOneTo(c.from)]_vars

\* ------------------------------------------------------ the open handler
\* the assistant_input messages sent to upstream socket w so far
Primings(w) ==
  SelectSeq(upSent, LAMBDA e : e.to = w /\ e.msg[1] = "assistant_input")

\* C28: when an upstream socket opens, the buffered audio frames are sent to
\* it in order, then the assistant_input message, and nothing else; each
\* upstream connection is sent exactly one assistant_input, whether or not
\* audio was buffered.
C28_FlushThenPrime ==
  [][\A w \in Sockets :
       JS_UpstreamOpen(w)
         => /\ Len(upSent') = Len(upSent) + Len(audioBuffer) + 1
            /\ SubSeq(upSent', 1, Len(upSent)) = upSent
            /\ \A i \in 1..Len(audioBuffer) :
                 upSent'[Len(upSent) + i] =
                   [to |-> w, msg |-> AudioInput(audioBuffer[i], sessionUuid)]
            /\ upSent'[Len(upSent')].to = w
            /\ upSent'[Len(upSent')].msg[1] = "assistant_input"
            /\ Len(Primings(w)') = 1]_vars

\* ------------------------------------------------------- the audio queue
\* the audio the session holds back for the upstream
Queue == IF variant = "ts" THEN queued ELSE audioBuffer

\* C29: whenever the upstream socket is open and no handler is running, the
\* pending audio queue is empty: no entry stays at its head to block the
\* frames behind it or to have them sent again.
C29_QueueEmptyWhenOpen == (Ready /\ ~crashed) => Queue = <<>>

\* ------------------------------------------------- the parsers compared
\* C31: the indexOf-based stripWavHeader and the byte-loop stripWavHeader it
\* replaced return the same result for every buffer, a buffer whose 'data'
\* marker starts in the last three bytes before the search limit included.
C31_LoopAndIndexOfAgree ==
  /\ Parsed("stripWavHeader_loop") => res.val = stripWavHeader(arg.in.buf)
  /\ Parsed("stripWavHeader") => res.val = stripWavHeader_loop(arg.in.buf)

\* C32: parseWav never raises: for every buffer, one with fewer than 24
\* bytes behind the start of its 'fmt ' marker included, it returns null or
\* a WavInfo whose fields were read inside the buffer.
C32_ParseWavNeverRaises ==
  Parsed("parseWav")
    => \/ res.val.kind = "null"
       \/ /\ res.val.kind = "info"
          /\ indexOf(arg.in.buf, FMT_MARKER) + 24 <= Len(arg.in.buf)

====
